---- MODULE Spec2Model ----
(***************************************************************************)
(* The analytics event bus of the Hydrogen AnalyticsProvider: the          *)
(* module-level subscription registry (subscribers), the readiness gate    *)
(* (registers / areRegistersReady), the deferred queue (waitForReadyQueue) *)
(* and the dispatch loop with per-subscriber fault isolation               *)
(* (publishEvent).  Every bus operation runs to completion (single         *)
(* threaded JavaScript), so each operation is one action.  Under Spec,     *)
(* SpecContext and SpecLive subscriber callbacks either return or throw;   *)
(* under SpecReentrant they also call register and publish themselves.     *)
(* SpecHooks adds the default context and the hooks used outside a         *)
(* provider; SpecGenerate is the cookbook's recipe step generation.        *)
(***************************************************************************)
EXTENDS Naturals, Sequences, FiniteSets, TLC

\* ------------------------------------------------------------------ bounds
\* Bus operations (subscribe, publish, register, ready) explored per run.
MaxOps == 7

\* Bus operations explored per run, not counting each participant's first
\* ready() call, when every participant is assumed to call ready(); it
\* stays at least two below MaxOps so that those calls are never cut off.
MaxLiveOps == 4

\* Bus operations called from outside explored per run when callbacks may
\* call the bus themselves; it stays at least two below MaxOps.
MaxReentrantOps == 5

\* Bus operations explored per run next to the calls made outside a
\* provider.
MaxHookOps == 3

\* Longest list of modified files handed to generateSteps.
MaxModifiedFiles == 3

\* Bus operations explored per run when they are made through the provider's
\* context value and the last call is recorded.
MaxContextOps == 5

\* ------------------------------------------------------------------ inputs
\* Keys passed to register(key).
Names == {"pixelA", "pixelB"}

\* Event kinds passed to subscribe / publish.
Kinds == {"page_viewed", "cart_updated"}

\* Callback instances handed to subscribe.  f1 and f2 are two closures
\* with the same source text; g has another text.
Callbacks == {"f1", "f2", "g"}

\* Callback instances that call the bus themselves, the first time they are
\* invoked: h registers LateName and publishes the kind it was invoked
\* with, k registers LateName and publishes the other kind.
CallbacksReentrant == {"f1", "h", "k"}

LateName == "pixelB"

OtherKind(event) == CHOOSE other \in Kinds : other # event

\* callback.toString(): the source text of the function, the key of its
\* subscription slot.
toString(callback) ==
    CASE callback \in {"f1", "f2"} -> "(p) => handle(p)"
      [] callback = "g" -> "(p) => report(p)"
      [] callback = "h" -> "(p) => again(p)"
      [] callback = "k" -> "(p) => other(p)"

\* What calling the callback does: return, throw an Error, or throw a
\* value that is not an Error.
Behaviour(callback) ==
    CASE callback = "f1" -> "returns"
      [] callback = "f2" -> "throwsValue"
      [] callback = "g" -> "throwsError"
      [] callback \in {"h", "k"} -> "returns"

VARIABLES
    subscribers,        \* Map<event, Map<callback text, callback>>
    registers,          \* Record<key, boolean>
    waitForReadyQueue,  \* Map<event, payload>
    calls,              \* every callback invocation made so far, in order
    console,            \* every console.error record written so far
    outcome,            \* how the last operation ended: "returned" / "threw"
    registered,         \* history: keys that were ever passed to register
    readied,            \* history: keys whose ready() was ever called
    subscribed,         \* history: <<event, callback>> pairs ever passed to subscribe
    published,          \* history: one record per publish call; its index is the payload
    openings,           \* history: one record per ready() call that made every key ready
    nCalls,             \* number of register, ready and subscribe calls made
    contextPublish,     \* the publish of the provider's context value: "publish" / "noop"
    canTrackAnswer,     \* history: what canTrack() returned when that value was computed
    lastOp              \* history: the last call made through a context value or hook,
                        \* with what it returned where that matters

vars == <<subscribers, registers, waitForReadyQueue, calls, console, outcome,
          registered, readied, subscribed, published, openings, nCalls,
          contextPublish, canTrackAnswer, lastOp>>

\* The module-level bus and the record of what its callers did.
bus == <<subscribers, registers, waitForReadyQueue, calls, console, outcome,
         registered, readied, subscribed, published, openings, nCalls>>

\* ------------------------------------------------------- JavaScript Map
\* A Map is the sequence of its entries in insertion order.
MapKeys(m) == {m[i].key : i \in 1..Len(m)}

MapHas(m, k) == k \in MapKeys(m)

MapIndex(m, k) == CHOOSE i \in 1..Len(m) : m[i].key = k

\* Map.prototype.set: a present key keeps its position and gets the new
\* value; an absent key is appended.
MapSet(m, k, v) ==
    IF MapHas(m, k)
    THEN [m EXCEPT ![MapIndex(m, k)] = [key |-> k, value |-> v]]
    ELSE Append(m, [key |-> k, value |-> v])

\* subscribers.get(event) ?? new Map()
subscribersOf(event) ==
    IF event \in DOMAIN subscribers THEN subscribers[event] ELSE <<>>

\* ------------------------------------------------------------ the gate
areRegistersReady_NonEmpty ==
    /\ DOMAIN registers # {}
    /\ \A key \in DOMAIN registers : registers[key]

areRegistersReady_Some ==
    \/ DOMAIN registers = {}
    \/ \E key \in DOMAIN registers : registers[key]

areRegistersReady == \A key \in DOMAIN registers : registers[key]

\* ------------------------------------------------------------ dispatch
\* acc carries the invocations and console records made so far by the
\* running operation and whether an exception is propagating out of it.
Running == [calls |-> calls, console |-> console, thrown |-> FALSE]

Ended(acc) == IF acc.thrown THEN "threw" ELSE "returned"

Invocation(event, payload, entry) ==
    [callback |-> entry.value, subscriber |-> entry.key,
     event |-> event, payload |-> payload]

ErrorRecord(entry) ==
    IF Behaviour(entry.value) = "throwsError"
    THEN <<"Analytics publish error", "error.message", entry.key, "error.stack">>
    ELSE <<"Analytics publish error", "error", entry.key>>

invokeCallback_NoCatch(acc, event, payload, entry) ==
    [calls |-> Append(acc.calls, Invocation(event, payload, entry)),
     console |-> acc.console,
     thrown |-> Behaviour(entry.value) # "returns"]

invokeCallback_Rethrow(acc, event, payload, entry) ==
    [calls |-> Append(acc.calls, Invocation(event, payload, entry)),
     console |-> IF Behaviour(entry.value) = "returns"
                 THEN acc.console
                 ELSE Append(acc.console, ErrorRecord(entry)),
     thrown |-> Behaviour(entry.value) # "returns"]

\* The body of the forEach in publishEvent: one callback invocation inside
\* try/catch.
invokeCallback(acc, event, payload, entry) ==
    [calls |-> Append(acc.calls, Invocation(event, payload, entry)),
     console |-> IF Behaviour(entry.value) = "returns"
                 THEN acc.console
                 ELSE Append(acc.console, ErrorRecord(entry)),
     thrown |-> FALSE]

\* Map.prototype.forEach over the subscribers of the event; an exception
\* leaving the callback body ends the loop.
RECURSIVE forEachSubscriber(_, _, _, _, _)
forEachSubscriber(subs, i, event, payload, acc) ==
    IF i > Len(subs) \/ acc.thrown
    THEN acc
    ELSE forEachSubscriber(subs, i + 1, event, payload,
                           invokeCallback(acc, event, payload, subs[i]))

publishEvent_AnyKind(event, payload, acc) ==
    forEachSubscriber(subscribersOf("page_viewed") \o subscribersOf("cart_updated"),
                      1, event, payload, acc)

publishEvent(event, payload, acc) ==
    forEachSubscriber(subscribersOf(event), 1, event, payload, acc)

\* waitForReadyQueue.forEach((queuePayload, queueEvent) => publishEvent(...))
RECURSIVE forEachQueued(_, _, _)
forEachQueued(queue, i, acc) ==
    IF i > Len(queue) \/ acc.thrown
    THEN acc
    ELSE forEachQueued(queue, i + 1,
                       publishEvent(queue[i].key, queue[i].value, acc))

\* ------------------------------------------------- history bookkeeping
\* What the caller did, recorded independently of the bus's own state.
NotedSubscribe(event, callback) ==
    /\ nCalls + Len(published) < MaxOps
    /\ nCalls' = nCalls + 1
    /\ subscribed' = subscribed \cup {<<event, callback>>}
    /\ UNCHANGED <<registered, readied, published, openings>>

NotedPublish(event) ==
    /\ nCalls + Len(published) < MaxOps
    /\ published' = Append(published,
           [event |-> event, registered |-> registered, readied |-> readied,
            subscribed |-> {c \in Callbacks : <<event, c>> \in subscribed}])
    /\ UNCHANGED <<registered, readied, subscribed, openings, nCalls>>

NotedRegister(key) ==
    /\ nCalls + Len(published) < MaxOps
    /\ nCalls' = nCalls + 1
    /\ registered' = registered \cup {key}
    /\ UNCHANGED <<readied, subscribed, published, openings>>

NotedReady(key) ==
    /\ nCalls + Len(published) < MaxOps
    /\ nCalls' = nCalls + 1
    /\ readied' = readied \cup {key}
    /\ openings' = IF registered \subseteq readied' /\ ~(registered \subseteq readied)
                   THEN Append(openings, [upTo |-> Len(published), by |-> key,
                                          registered |-> registered,
                                          subscribed |-> subscribed])
                   ELSE openings
    /\ UNCHANGED <<registered, subscribed, published>>

\* ------------------------------------------------------------ operations
subscribe_ByInstance(event, callback) ==
    /\ NotedSubscribe(event, callback)
    /\ subscribers' =
           (event :> MapSet(subscribersOf(event), callback, callback))
              @@ subscribers
    /\ outcome' = "returned"
    /\ UNCHANGED <<registers, waitForReadyQueue, calls, console>>

subscribe_Replay(event, callback) ==
    /\ NotedSubscribe(event, callback)
    /\ subscribers' =
           (event :> MapSet(subscribersOf(event), toString(callback), callback))
              @@ subscribers
    /\ calls' = IF MapHas(waitForReadyQueue, event)
                THEN Append(calls,
                         [callback |-> callback, subscriber |-> toString(callback),
                          event |-> event,
                          payload |-> waitForReadyQueue[MapIndex(waitForReadyQueue, event)].value])
                ELSE calls
    /\ outcome' = "returned"
    /\ UNCHANGED <<registers, waitForReadyQueue, console>>

subscribe_KeepFirst(event, callback) ==
    /\ NotedSubscribe(event, callback)
    /\ subscribers' =
           IF MapHas(subscribersOf(event), toString(callback))
           THEN subscribers
           ELSE (event :> MapSet(subscribersOf(event), toString(callback), callback))
                   @@ subscribers
    /\ outcome' = "returned"
    /\ UNCHANGED <<registers, waitForReadyQueue, calls, console>>

subscribe_Single(event, callback) ==
    /\ NotedSubscribe(event, callback)
    /\ subscribers' =
           (event :> <<[key |-> toString(callback), value |-> callback]>>)
              @@ subscribers
    /\ outcome' = "returned"
    /\ UNCHANGED <<registers, waitForReadyQueue, calls, console>>

subscribe(event, callback) ==
    /\ NotedSubscribe(event, callback)
    /\ subscribers' =
           (event :> MapSet(subscribersOf(event), toString(callback), callback))
              @@ subscribers
    /\ outcome' = "returned"
    /\ UNCHANGED <<registers, waitForReadyQueue, calls, console>>

publish_NoGate(event, payload) ==
    /\ NotedPublish(event)
    /\ LET acc == publishEvent(event, payload, Running)
       IN  /\ calls' = acc.calls
           /\ console' = acc.console
           /\ outcome' = Ended(acc)
    /\ UNCHANGED <<subscribers, registers, waitForReadyQueue>>

publish_Fifo(event, payload) ==
    /\ NotedPublish(event)
    /\ IF ~areRegistersReady
       THEN /\ waitForReadyQueue' =
                   Append(waitForReadyQueue, [key |-> event, value |-> payload])
            /\ outcome' = "returned"
            /\ UNCHANGED <<calls, console>>
       ELSE LET acc == publishEvent(event, payload, Running)
            IN  /\ calls' = acc.calls
                /\ console' = acc.console
                /\ outcome' = Ended(acc)
                /\ UNCHANGED waitForReadyQueue
    /\ UNCHANGED <<subscribers, registers>>

publish_AlsoQueue(event, payload) ==
    /\ NotedPublish(event)
    /\ waitForReadyQueue' = MapSet(waitForReadyQueue, event, payload)
    /\ IF ~areRegistersReady
       THEN /\ outcome' = "returned"
            /\ UNCHANGED <<calls, console>>
       ELSE LET acc == publishEvent(event, payload, Running)
            IN  /\ calls' = acc.calls
                /\ console' = acc.console
                /\ outcome' = Ended(acc)
    /\ UNCHANGED <<subscribers, registers>>

publish_MoveLast(event, payload) ==
    /\ NotedPublish(event)
    /\ IF ~areRegistersReady
       THEN /\ waitForReadyQueue' =
                   Append(SelectSeq(waitForReadyQueue, LAMBDA e : e.key # event),
                          [key |-> event, value |-> payload])
            /\ outcome' = "returned"
            /\ UNCHANGED <<calls, console>>
       ELSE LET acc == publishEvent(event, payload, Running)
            IN  /\ calls' = acc.calls
                /\ console' = acc.console
                /\ outcome' = Ended(acc)
                /\ UNCHANGED waitForReadyQueue
    /\ UNCHANGED <<subscribers, registers>>

publish(event, payload) ==
    /\ NotedPublish(event)
    /\ IF ~areRegistersReady
       THEN /\ waitForReadyQueue' = MapSet(waitForReadyQueue, event, payload)
            /\ outcome' = "returned"
            /\ UNCHANGED <<calls, console>>
       ELSE LET acc == publishEvent(event, payload, Running)
            IN  /\ calls' = acc.calls
                /\ console' = acc.console
                /\ outcome' = Ended(acc)
                /\ UNCHANGED waitForReadyQueue
    /\ UNCHANGED <<subscribers, registers>>

register_Reset(key) ==
    /\ NotedRegister(key)
    /\ registers' = (key :> FALSE) @@ registers
    /\ outcome' = "returned"
    /\ UNCHANGED <<subscribers, waitForReadyQueue, calls, console>>

register(key) ==
    /\ NotedRegister(key)
    /\ registers' = IF key \in DOMAIN registers
                    THEN registers
                    ELSE (key :> FALSE) @@ registers
    /\ outcome' = "returned"
    /\ UNCHANGED <<subscribers, waitForReadyQueue, calls, console>>

ready_NoFlush(key) ==
    /\ key \in registered
    /\ NotedReady(key)
    /\ registers' = (key :> TRUE) @@ registers
    /\ waitForReadyQueue' = IF areRegistersReady' THEN <<>> ELSE waitForReadyQueue
    /\ outcome' = "returned"
    /\ UNCHANGED <<subscribers, calls, console>>

ready_KeepQueue(key) ==
    /\ key \in registered
    /\ NotedReady(key)
    /\ registers' = (key :> TRUE) @@ registers
    /\ IF areRegistersReady' /\ Len(waitForReadyQueue) > 0
       THEN LET acc == forEachQueued(waitForReadyQueue, 1, Running)
            IN  /\ calls' = acc.calls
                /\ console' = acc.console
                /\ outcome' = Ended(acc)
       ELSE /\ outcome' = "returned"
            /\ UNCHANGED <<calls, console>>
    /\ UNCHANGED <<subscribers, waitForReadyQueue>>

ready_Toggle(key) ==
    /\ key \in registered
    /\ NotedReady(key)
    /\ registers' = (key :> ~registers[key]) @@ registers
    /\ IF areRegistersReady' /\ Len(waitForReadyQueue) > 0
       THEN LET acc == forEachQueued(waitForReadyQueue, 1, Running)
            IN  /\ calls' = acc.calls
                /\ console' = acc.console
                /\ outcome' = Ended(acc)
                /\ waitForReadyQueue' =
                       IF acc.thrown THEN waitForReadyQueue ELSE <<>>
       ELSE /\ outcome' = "returned"
            /\ UNCHANGED <<calls, console, waitForReadyQueue>>
    /\ UNCHANGED subscribers

ready_All(key) ==
    /\ key \in registered
    /\ NotedReady(key)
    /\ registers' = [k \in DOMAIN registers \cup {key} |-> TRUE]
    /\ IF areRegistersReady' /\ Len(waitForReadyQueue) > 0
       THEN LET acc == forEachQueued(waitForReadyQueue, 1, Running)
            IN  /\ calls' = acc.calls
                /\ console' = acc.console
                /\ outcome' = Ended(acc)
                /\ waitForReadyQueue' =
                       IF acc.thrown THEN waitForReadyQueue ELSE <<>>
       ELSE /\ outcome' = "returned"
            /\ UNCHANGED <<calls, console, waitForReadyQueue>>
    /\ UNCHANGED subscribers

\* The ready() closure returned by register(key): it exists only once
\* register(key) has been called.
ready(key) ==
    /\ key \in registered
    /\ NotedReady(key)
    /\ registers' = (key :> TRUE) @@ registers
    /\ IF areRegistersReady' /\ Len(waitForReadyQueue) > 0
       THEN LET acc == forEachQueued(waitForReadyQueue, 1, Running)
            IN  /\ calls' = acc.calls
                /\ console' = acc.console
                /\ outcome' = Ended(acc)
                /\ waitForReadyQueue' =
                       IF acc.thrown THEN waitForReadyQueue ELSE <<>>
       ELSE /\ outcome' = "returned"
            /\ UNCHANGED <<calls, console, waitForReadyQueue>>
    /\ UNCHANGED subscribers

Init ==
    /\ subscribers = <<>>
    /\ registers = <<>>
    /\ waitForReadyQueue = <<>>
    /\ calls = <<>>
    /\ console = <<>>
    /\ outcome = "returned"
    /\ registered = {}
    /\ readied = {}
    /\ subscribed = {}
    /\ published = <<>>
    /\ openings = <<>>
    /\ nCalls = 0
    /\ contextPublish = "noop"
    /\ canTrackAnswer = "none"
    /\ lastOp = <<"none">>

\* The bus functions called directly, as the module exports them.
Next ==
    \/ \E event \in Kinds, callback \in Callbacks :
           subscribe(event, callback) /\ UNCHANGED <<contextPublish, canTrackAnswer, lastOp>>
    \/ \E event \in Kinds :
           publish(event, Len(published) + 1) /\ UNCHANGED <<contextPublish, canTrackAnswer, lastOp>>
    \/ \E key \in Names :
           register(key) /\ UNCHANGED <<contextPublish, canTrackAnswer, lastOp>>
    \/ \E key \in Names :
           ready(key) /\ UNCHANGED <<contextPublish, canTrackAnswer, lastOp>>

Spec == Init /\ [][Next]_vars

\* ------------------------------------------------- the provider's context
\* useMemo in AnalyticsProvider: the context value is computed with
\* publish: canTrack() ? publish : () => {}; canTrackReturns is what the
\* predicate answers during this computation.
contextValue_AlwaysPublish(canTrackReturns) ==
    /\ contextPublish' = "publish"
    /\ canTrackAnswer' = IF canTrackReturns THEN "true" ELSE "false"
    /\ lastOp' = <<"value">>
    /\ UNCHANGED bus

contextValue(canTrackReturns) ==
    /\ contextPublish' = IF canTrackReturns THEN "publish" ELSE "noop"
    /\ canTrackAnswer' = IF canTrackReturns THEN "true" ELSE "false"
    /\ lastOp' = <<"value">>
    /\ UNCHANGED bus

\* useAnalytics().publish(event, payload)
publishThroughContext(event, payload) ==
    /\ lastOp' = <<"publish", event>>
    /\ IF contextPublish = "publish"
       THEN publish(event, payload)
       ELSE UNCHANGED bus
    /\ UNCHANGED <<contextPublish, canTrackAnswer>>

Within == nCalls + Len(published) < MaxContextOps

\* The same operations made through useAnalytics(), each call recorded.
NextContext ==
    \/ \E canTrackReturns \in BOOLEAN : contextValue(canTrackReturns)
    \/ \E event \in Kinds :
           Within /\ publishThroughContext(event, Len(published) + 1)
    \/ \E event \in Kinds, callback \in Callbacks :
           /\ Within
           /\ subscribe(event, callback)
           /\ lastOp' = <<"subscribe", event, callback>>
           /\ UNCHANGED <<contextPublish, canTrackAnswer>>
    \/ \E key \in Names :
           /\ Within
           /\ register(key)
           /\ lastOp' = <<"register", key>>
           /\ UNCHANGED <<contextPublish, canTrackAnswer>>
    \/ \E key \in Names :
           /\ Within
           /\ ready(key)
           /\ lastOp' = <<"ready", key>>
           /\ UNCHANGED <<contextPublish, canTrackAnswer>>

SpecContext == Init /\ [][NextContext]_vars

\* ------------------------------------- participants that all become ready
\* The first ready() call of a registered participant.
firstReady(key) ==
    /\ key \in registered \ readied
    /\ ready(key)
    /\ UNCHANGED <<contextPublish, canTrackAnswer, lastOp>>

WithinLive == nCalls + Len(published) < MaxLiveOps

\* The bus functions called directly; finitely many calls are made, except
\* that a registered participant can always make its first ready() call.
NextLive ==
    \/ \E event \in Kinds, callback \in Callbacks :
           /\ WithinLive
           /\ subscribe(event, callback)
           /\ UNCHANGED <<contextPublish, canTrackAnswer, lastOp>>
    \/ \E event \in Kinds :
           /\ WithinLive
           /\ publish(event, Len(published) + 1)
           /\ UNCHANGED <<contextPublish, canTrackAnswer, lastOp>>
    \/ \E key \in Names :
           /\ WithinLive
           /\ register(key)
           /\ UNCHANGED <<contextPublish, canTrackAnswer, lastOp>>
    \/ \E key \in readied :
           /\ WithinLive
           /\ ready(key)
           /\ UNCHANGED <<contextPublish, canTrackAnswer, lastOp>>
    \/ \E key \in Names : firstReady(key)

\* Every registered participant eventually calls ready().
SpecLive ==
    /\ Init
    /\ [][NextLive]_vars
    /\ \A key \in Names : WF_vars(firstReady(key))

\* ------------------------------------ callbacks that call the bus again
\* An operation and the calls nested in its callbacks run to completion on
\* the bus state st; subscriptions do not change meanwhile.
St == [registers |-> registers, queue |-> waitForReadyQueue, calls |-> calls,
       console |-> console, published |-> published, registered |-> registered]

areRegistersReadyIn(st) == \A key \in DOMAIN st.registers : st.registers[key]

registerIn(st, key) ==
    [st EXCEPT !.registers = IF key \in DOMAIN @ THEN @ ELSE (key :> FALSE) @@ @,
               !.registered = @ \cup {key}]

RECURSIVE publishIn(_, _, _, _)
RECURSIVE publishEventIn(_, _, _, _)
RECURSIVE forEachSubscriberIn(_, _, _, _, _, _)
RECURSIVE invokeCallbackIn(_, _, _, _, _)

\* publish(event, payload); by says who called it ("caller", or the
\* operation whose callback did), within is the operation running.
publishIn(st, event, by, within) ==
    LET payload == Len(st.published) + 1
        noted == [st EXCEPT !.published =
                      Append(@, [event |-> event, registered |-> st.registered,
                                 readied |-> readied,
                                 subscribed |-> {c \in CallbacksReentrant :
                                                    <<event, c>> \in subscribed},
                                 by |-> by])]
    IN  IF ~areRegistersReadyIn(noted)
        THEN [noted EXCEPT !.queue = MapSet(@, event, payload)]
        ELSE publishEventIn(noted, event, payload, within)

publishEventIn(st, event, payload, within) ==
    forEachSubscriberIn(st, subscribersOf(event), 1, event, payload, within)

forEachSubscriberIn(st, subs, i, event, payload, within) ==
    IF i > Len(subs)
    THEN st
    ELSE forEachSubscriberIn(invokeCallbackIn(st, event, payload, subs[i], within),
                             subs, i + 1, event, payload, within)

\* callback(payload) inside try/catch, the callback's own bus calls
\* included.
invokeCallbackIn(st, event, payload, entry, within) ==
    LET first == ~\E j \in 1..Len(st.calls) : st.calls[j].callback = entry.value
        called == [st EXCEPT !.calls = Append(@, Invocation(event, payload, entry)),
                             !.console = IF Behaviour(entry.value) = "returns"
                                         THEN @
                                         ELSE Append(@, ErrorRecord(entry))]
    IN  CASE entry.value = "h" /\ first ->
                 publishIn(registerIn(called, LateName), event, within, within)
          [] entry.value = "k" /\ first ->
                 publishIn(registerIn(called, LateName), OtherKind(event),
                           within, within)
          [] OTHER -> called

\* waitForReadyQueue.forEach(...): the Map is iterated live, so an entry
\* appended during the loop is visited and an entry replaced before its
\* turn is visited with its new payload.
RECURSIVE forEachQueuedIn(_, _)
forEachQueuedIn(st, i) ==
    IF i > Len(st.queue)
    THEN st
    ELSE forEachQueuedIn(publishEventIn(st, st.queue[i].key, st.queue[i].value,
                                        "flush"),
                         i + 1)

WithinReentrant == nCalls + Len(published) < MaxReentrantOps

publishReentrant(event) ==
    /\ WithinReentrant
    /\ LET st == publishIn(St, event, "caller", "publish")
       IN  /\ registers' = st.registers
           /\ waitForReadyQueue' = st.queue
           /\ calls' = st.calls
           /\ console' = st.console
           /\ published' = st.published
           /\ registered' = st.registered
    /\ outcome' = "returned"
    /\ UNCHANGED <<subscribers, readied, subscribed, openings, nCalls>>

readyReentrant(key) ==
    /\ WithinReentrant
    /\ key \in registered
    /\ LET set == [St EXCEPT !.registers = (key :> TRUE) @@ @]
           flush == areRegistersReadyIn(set) /\ Len(set.queue) > 0
           st == IF flush THEN forEachQueuedIn(set, 1) ELSE set
       IN  /\ registers' = st.registers
           /\ waitForReadyQueue' = IF flush THEN <<>> ELSE st.queue
           /\ calls' = st.calls
           /\ console' = st.console
           /\ published' = st.published
           /\ registered' = st.registered
    /\ outcome' = "returned"
    /\ nCalls' = nCalls + 1
    /\ readied' = readied \cup {key}
    /\ openings' = IF registered \subseteq readied' /\ ~(registered \subseteq readied)
                   THEN Append(openings, [upTo |-> Len(published), by |-> key,
                                          registered |-> registered,
                                          subscribed |-> subscribed])
                   ELSE openings
    /\ UNCHANGED <<subscribers, subscribed>>

NextReentrant ==
    \/ \E event \in Kinds, callback \in CallbacksReentrant :
           /\ WithinReentrant
           /\ subscribe(event, callback)
           /\ UNCHANGED <<contextPublish, canTrackAnswer, lastOp>>
    \/ \E event \in Kinds :
           publishReentrant(event) /\ UNCHANGED <<contextPublish, canTrackAnswer, lastOp>>
    \/ \E key \in Names :
           /\ WithinReentrant
           /\ register(key)
           /\ UNCHANGED <<contextPublish, canTrackAnswer, lastOp>>
    \/ \E key \in Names :
           readyReentrant(key) /\ UNCHANGED <<contextPublish, canTrackAnswer, lastOp>>

SpecReentrant == Init /\ [][NextReentrant]_vars

\* ------------------------------------------ outside an AnalyticsProvider
\* The functions of defaultAnalyticsContext: publish: () => {},
\* subscribe: () => {}, register: () => ({ready: () => {}}),
\* canTrack: () => false.
defaultPublish_Bus(event, payload) ==
    /\ lastOp' = <<"default.publish", event>>
    /\ publish(event, payload)
    /\ UNCHANGED <<contextPublish, canTrackAnswer>>

defaultPublish(event, payload) ==
    /\ lastOp' = <<"default.publish", event>>
    /\ UNCHANGED <<bus, contextPublish, canTrackAnswer>>

defaultSubscribe(event, callback) ==
    /\ lastOp' = <<"default.subscribe", event, callback>>
    /\ UNCHANGED <<bus, contextPublish, canTrackAnswer>>

defaultRegister(key) ==
    /\ lastOp' = <<"default.register", key>>
    /\ UNCHANGED <<bus, contextPublish, canTrackAnswer>>

\* ready() of the object the default register has just returned.
defaultReady(key) ==
    /\ lastOp \in {<<"default.register", key>>, <<"default.ready", key>>}
    /\ lastOp' = <<"default.ready", key>>
    /\ UNCHANGED <<bus, contextPublish, canTrackAnswer>>

defaultCanTrack ==
    /\ lastOp' = <<"default.canTrack", "false">>
    /\ UNCHANGED <<bus, contextPublish, canTrackAnswer>>

\* Where the component calling useAnalytics() is mounted.
Mounts == {"inside", "outside"}

\* useContext(AnalyticsContext): the value of the nearest provider, or the
\* default given to createContext when there is none.
useContext(mount) ==
    IF mount = "inside" THEN "value" ELSE "defaultAnalyticsContext"

\* The values JavaScript's ! operator turns into true.
Falsy == {"null", "undefined"}

useAnalytics(mount) ==
    LET analyticsContext == useContext(mount)
    IN  IF analyticsContext \in Falsy THEN "threw" ELSE analyticsContext

useAnalyticsCall(mount) ==
    /\ lastOp' = <<"useAnalytics", mount, useAnalytics(mount)>>
    /\ UNCHANGED <<bus, contextPublish, canTrackAnswer>>

\* What window.Shopify.customerPrivacy.analyticsProcessingAllowed() does:
\* a part of the path is missing, the call throws, or it returns a value.
PrivacyApis == {"noWindow", "noShopify", "noCustomerPrivacy", "notAFunction",
                "throws", "returnsTrue", "returnsFalse", "returnsUndefined"}

analyticsProcessingAllowed(api) ==
    CASE api = "returnsTrue" -> [thrown |-> FALSE, value |-> "true"]
      [] api = "returnsFalse" -> [thrown |-> FALSE, value |-> "false"]
      [] api = "returnsUndefined" -> [thrown |-> FALSE, value |-> "undefined"]
      [] api = "throws" -> [thrown |-> TRUE, value |-> "Error"]
      [] OTHER -> [thrown |-> TRUE, value |-> "TypeError"]

shopifyCanTrack_NoCatch(api) ==
    LET attempt == analyticsProcessingAllowed(api)
    IN  IF attempt.thrown THEN "threw" ELSE attempt.value

\* try { return ...analyticsProcessingAllowed(); } catch (e) {} return false;
shopifyCanTrack(api) ==
    LET attempt == analyticsProcessingAllowed(api)
    IN  IF attempt.thrown THEN "false" ELSE attempt.value

shopifyCanTrackCall(api) ==
    /\ lastOp' = <<"shopifyCanTrack", api, shopifyCanTrack(api)>>
    /\ UNCHANGED <<bus, contextPublish, canTrackAnswer>>

WithinHooks == nCalls + Len(published) < MaxHookOps

\* The bus functions called directly, next to calls made on the default
\* context, to useAnalytics() and to shopifyCanTrack().
NextHooks ==
    \/ \E event \in Kinds : defaultPublish(event, Len(published) + 1)
    \/ \E event \in Kinds, callback \in Callbacks : defaultSubscribe(event, callback)
    \/ \E key \in Names : defaultRegister(key)
    \/ \E key \in Names : defaultReady(key)
    \/ defaultCanTrack
    \/ \E mount \in Mounts : useAnalyticsCall(mount)
    \/ \E api \in PrivacyApis : shopifyCanTrackCall(api)
    \/ \E event \in Kinds :
           /\ WithinHooks
           /\ publish(event, Len(published) + 1)
           /\ lastOp' = <<"publish", event>>
           /\ UNCHANGED <<contextPublish, canTrackAnswer>>
    \/ \E event \in Kinds, callback \in Callbacks :
           /\ WithinHooks
           /\ subscribe(event, callback)
           /\ lastOp' = <<"subscribe", event, callback>>
           /\ UNCHANGED <<contextPublish, canTrackAnswer>>
    \/ \E key \in Names :
           /\ WithinHooks
           /\ register(key)
           /\ lastOp' = <<"register", key>>
           /\ UNCHANGED <<contextPublish, canTrackAnswer>>
    \/ \E key \in Names :
           /\ WithinHooks
           /\ ready(key)
           /\ lastOp' = <<"ready", key>>
           /\ UNCHANGED <<contextPublish, canTrackAnswer>>

SpecHooks == Init /\ [][NextHooks]_vars

\* ------------------------------------------------ cookbook: generate.ts
\* A path is the sequence of its parts; a file name ends with its suffix.
\* The constants imported from ./constants are kept symbolic, with
\* TEMPLATE_PATH the template directory inside the repository root.
REPO_ROOT == <<"REPO_ROOT">>

TEMPLATE_DIRECTORY == <<"TEMPLATE_DIRECTORY">>

TEMPLATE_PATH == REPO_ROOT \o TEMPLATE_DIRECTORY

\* Files of the repository, relative to its root, as git status lists them.
RepoFiles == {TEMPLATE_DIRECTORY \o <<"root", ".tsx">>,
              TEMPLATE_DIRECTORY \o <<"cart", ".ts">>,
              TEMPLATE_DIRECTORY \o <<"env", ".d.ts">>,
              <<"docs", "readme", ".md">>}

endsWith(file, suffix) == Len(file) > 0 /\ file[Len(file)] = suffix

pathJoin(root, file) == root \o file

\* Where pattern first occurs in text (0 if nowhere).
indexOf(text, pattern) ==
    LET at == {k \in 1..(Len(text) - Len(pattern) + 1) :
                   SubSeq(text, k, k + Len(pattern) - 1) = pattern}
    IN  IF at = {} THEN 0 ELSE CHOOSE k \in at : \A k2 \in at : k <= k2

\* String.prototype.replace(pattern, ''): the first occurrence is removed.
replace(text, pattern) ==
    LET k == indexOf(text, pattern)
    IN  IF k = 0
        THEN text
        ELSE SubSeq(text, 1, k - 1) \o SubSeq(text, k + Len(pattern), Len(text))

\* path.relative(from, to) for a path inside from, or beside its last part.
relative(from, to) ==
    IF Len(to) >= Len(from) /\ SubSeq(to, 1, Len(from)) = from
    THEN SubSeq(to, Len(from) + 1, Len(to))
    ELSE <<"..">> \o SubSeq(to, Len(from), Len(to))

\* A step of a recipe; a step without diffs has the empty list, which the
\* code treats like null.
Step(type, index, name, diffs) ==
    [type |-> type, index |-> index, name |-> name, diffs |-> diffs]

DiffOf(file) ==
    <<[file |-> replace(pathJoin(REPO_ROOT, file), TEMPLATE_PATH),
       patchFile |-> <<"patch", "old">>]>>

RootTsx == TEMPLATE_DIRECTORY \o <<"root", ".tsx">>

CartTs == TEMPLATE_DIRECTORY \o <<"cart", ".ts">>

EnvDts == TEMPLATE_DIRECTORY \o <<"env", ".d.ts">>

\* What maybeLoadExistingRecipe returns: null (exists FALSE) or a recipe.
ExistingRecipes ==
    { [exists |-> FALSE, steps |-> <<>>],
      [exists |-> TRUE, steps |-> <<>>],
      [exists |-> TRUE,
       steps |-> << Step("INFO", 1, "intro", <<>>),
                    Step("COPY_INGREDIENTS", 2, "copy", <<>>),
                    Step("PATCH", 3, "root", DiffOf(RootTsx)),
                    Step("PATCH", 4, "cart", DiffOf(CartTs)) >>],
      [exists |-> TRUE,
       steps |-> << Step("PATCH", 1, "cart", DiffOf(CartTs)),
                    Step("INFO", 7, "outro", <<>>),
                    Step("INFO", 2, "notes", DiffOf(EnvDts)) >>],
      [exists |-> TRUE,
       steps |-> << Step("PATCH", 2, "both", DiffOf(RootTsx) \o DiffOf(CartTs)),
                    Step("PATCH", 0, "root", DiffOf(RootTsx)),
                    Step("PATCH", 5, "root again", DiffOf(RootTsx)) >>] }

IngredientLists == {<<>>, <<[path |-> <<"new", ".ts">>, description |-> "null"]>>}

Range(seq) == {seq[i] : i \in 1..Len(seq)}

\* The lists of at most n different files.
RECURSIVE FileLists(_)
FileLists(n) ==
    IF n = 0
    THEN {<<>>}
    ELSE LET shorter == FileLists(n - 1)
         IN  shorter \cup
                 {Append(pair[1], pair[2]) :
                      pair \in {q \in shorter \X RepoFiles :
                                    Len(q[1]) = n - 1 /\ q[2] \notin Range(q[1])}}

\* createPatchFile: the patch is written under a name made of the file's
\* base name and a hash of its full path.
createPatchFile(file) ==
    LET fullPath == pathJoin(REPO_ROOT, file)
    IN  [fullPath |-> fullPath, patchFilename |-> <<"patch", fullPath>>]

copyIngredientsStep(ingredients) ==
    Step("COPY_INGREDIENTS", 0, "Add ingredients to your project", <<>>)

\* Array.prototype.find and findIndex: the first of the positions that
\* match (0 if there is none).
findIndex(matching) ==
    IF matching = {} THEN 0 ELSE CHOOSE k \in matching : \A k2 \in matching : k <= k2

\* The body of the loop over the modified files: the i-th PATCH step.
patchStep(existingRecipe, file, i) ==
    LET made == createPatchFile(file)
        diffFile == replace(made.fullPath, TEMPLATE_PATH)
        steps == existingRecipe.steps
        existingStep ==
            IF existingRecipe.exists
            THEN findIndex({k \in 1..Len(steps) :
                               /\ Len(steps[k].diffs) = 1
                               /\ steps[k].diffs[1].file = diffFile})
            ELSE 0
    IN  Step("PATCH",
             IF existingStep # 0 THEN steps[existingStep].index ELSE i,
             IF existingStep # 0 THEN steps[existingStep].name
                                 ELSE replace(file, TEMPLATE_DIRECTORY),
             <<[file |-> diffFile, patchFile |-> made.patchFilename]>>)

sort_Unsorted(steps) == steps

\* patchSteps.sort((a, b) => a.index - b.index): ascending and stable.
RECURSIVE sort(_)
sort(steps) ==
    IF steps = <<>>
    THEN <<>>
    ELSE LET front == sort(SubSeq(steps, 1, Len(steps) - 1))
             last == steps[Len(steps)]
             k == Cardinality({j \in 1..Len(front) : front[j].index <= last.index})
         IN  SubSeq(front, 1, k) \o <<last>> \o SubSeq(front, k + 1, Len(front))

\* generateSteps: the steps it returns, with the patch files it wrote and
\* the PATCH steps as they were before sorting and renumbering.
generateSteps(params) ==
    LET existingInfoSteps ==
            IF params.existingRecipe.exists
            THEN SelectSeq(params.existingRecipe.steps, LAMBDA step : step.type = "INFO")
            ELSE <<>>
        modifiedFiles ==
            SelectSeq(params.modifiedFiles, LAMBDA file : ~endsWith(file, ".d.ts"))
        patchSteps ==
            [i \in 1..Len(modifiedFiles) |->
                 patchStep(params.existingRecipe, modifiedFiles[i], i)]
        maybeCopyIngredientsStep ==
            IF Len(params.ingredients) > 0
            THEN <<copyIngredientsStep(params.ingredients)>>
            ELSE <<>>
        steps == existingInfoSteps \o maybeCopyIngredientsStep \o sort(patchSteps)
    IN  [steps |-> [index \in 1..Len(steps) |-> [steps[index] EXCEPT !.index = index]],
         patchSteps |-> patchSteps,
         patches |-> {createPatchFile(modifiedFiles[i]).patchFilename :
                          i \in 1..Len(modifiedFiles)}]

generateStepsCall(params) ==
    /\ lastOp' = <<"generateSteps", params, generateSteps(params)>>
    /\ UNCHANGED <<bus, contextPublish, canTrackAnswer>>

Threw(message) == [outcome |-> "threw", value |-> message, patches |-> {}]

RecipeManifestFormats == {"json", "yaml"}

\* The manifest of the recipe, inside the directory of the recipe.
recipeManifestPath(format) ==
    IF format = "json"
    THEN <<"COOKBOOK_PATH", "recipes", "recipeName", "recipe.json">>
    ELSE <<"COOKBOOK_PATH", "recipes", "recipeName", "recipe.yaml">>

generateForSingleFile_NoStepCheck(params) ==
    IF ~params.filePath.given
    THEN Threw("filePath is required")
    ELSE IF ~params.recipeDirExists
    THEN Threw("Recipe directory does not exist")
    ELSE IF ~params.existingRecipe.exists
    THEN Threw("Recipe not found")
    ELSE LET made == generateSteps(
                 [ingredients |-> <<>>,
                  existingRecipe |-> [exists |-> FALSE, steps |-> <<>>],
                  modifiedFiles |-> <<relative(REPO_ROOT, params.filePath.path)>>])
         IN  IF Len(made.steps) # 1
             THEN [outcome |-> "threw", value |-> "Expected 1 step",
                   patches |-> made.patches]
             ELSE [outcome |-> "returned",
                   value |-> recipeManifestPath(params.recipeManifestFormat),
                   patches |-> made.patches]

\* generateForSingleFile: how it ends, and the patch files it wrote.
generateForSingleFile(params) ==
    IF ~params.filePath.given
    THEN Threw("filePath is required")
    ELSE IF ~params.recipeDirExists
    THEN Threw("Recipe directory does not exist")
    ELSE IF ~params.existingRecipe.exists
    THEN Threw("Recipe not found")
    ELSE IF findIndex({k \in 1..Len(params.existingRecipe.steps) :
                          \E d \in 1..Len(params.existingRecipe.steps[k].diffs) :
                              params.existingRecipe.steps[k].diffs[d].file
                                  = relative(TEMPLATE_PATH, params.filePath.path)}) = 0
    THEN Threw("Step for file not found")
    ELSE LET made == generateSteps(
                 [ingredients |-> <<>>,
                  existingRecipe |-> [exists |-> FALSE, steps |-> <<>>],
                  modifiedFiles |-> <<relative(REPO_ROOT, params.filePath.path)>>])
         IN  IF Len(made.steps) # 1
             THEN [outcome |-> "threw", value |-> "Expected 1 step",
                   patches |-> made.patches]
             ELSE [outcome |-> "returned",
                   value |-> recipeManifestPath(params.recipeManifestFormat),
                   patches |-> made.patches]

\* filePath: absent, or the absolute path of a file of the repository.
FilePaths ==
    {[path |-> <<>>, given |-> FALSE]}
        \cup {[path |-> pathJoin(REPO_ROOT, file), given |-> TRUE] : file \in RepoFiles}

\* A recipe can only be loaded from a directory that exists.
SingleFileParams ==
    {params \in [existingRecipe : ExistingRecipes, filePath : FilePaths,
                 recipeDirExists : BOOLEAN,
                 recipeManifestFormat : RecipeManifestFormats] :
         params.existingRecipe.exists => params.recipeDirExists}

generateForSingleFileCall(params) ==
    /\ lastOp' = <<"generateForSingleFile", params, generateForSingleFile(params)>>
    /\ UNCHANGED <<bus, contextPublish, canTrackAnswer>>

NextGenerate ==
    \/ \E modifiedFiles \in FileLists(MaxModifiedFiles),
          existingRecipe \in ExistingRecipes, ingredients \in IngredientLists :
           generateStepsCall([ingredients |-> ingredients,
                              existingRecipe |-> existingRecipe,
                              modifiedFiles |-> modifiedFiles])
    \/ \E params \in SingleFileParams : generateForSingleFileCall(params)

SpecGenerate == Init /\ [][NextGenerate]_vars

\* ------------------------------------------------------------ vocabulary
\* The terms of the properties below, read off the history variables.
Payloads == 1..Len(published)

\* At least one registered participant has not called ready().
GateClosed == \E key \in registered : key \notin readied

\* The gate was Closed when payload P was published.
ClosedAt(P) == \E key \in published[P].registered : key \notin published[P].readied

\* Structural identities of a set of callbacks.
Identities(callbacks) == {toString(c) : c \in callbacks}

SubscribedUnder(pairs, event) == {c \in Callbacks : <<event, c>> \in pairs}

\* Invocations that carried payload P, and those among them made on the
\* callback identity t.
CallsOf(P) == {i \in 1..Len(calls) : calls[i].payload = P}

CallsTo(P, t) == {i \in CallsOf(P) : toString(calls[i].callback) = t}

Throwing(i) == Behaviour(calls[i].callback) # "returns"

\* The ready() calls that opened the gate after P was published.
OpeningsSince(P) == {o \in 1..Len(openings) : openings[o].upTo >= P}

FirstOpeningSince(P) ==
    CHOOSE o \in OpeningsSince(P) : \A o2 \in OpeningsSince(P) : o <= o2

\* P was published while Closed, the gate has opened since, and its kind
\* was not published again before the gate opened.
Flushed(P) ==
    /\ ClosedAt(P)
    /\ OpeningsSince(P) # {}
    /\ ~\E Q \in Payloads :
           /\ Q > P
           /\ published[Q].event = published[P].event
           /\ Q <= openings[FirstOpeningSince(P)].upTo

\* The callbacks subscribed under P's kind when P was handed to the
\* dispatcher: at the flush for a flushed payload, at the publish call for
\* a payload published while Open.
SubscribedAtDelivery(P) ==
    IF ClosedAt(P)
    THEN SubscribedUnder(openings[FirstOpeningSince(P)].subscribed,
                         published[P].event)
    ELSE published[P].subscribed

Delivered(P) == ~ClosedAt(P) \/ Flushed(P)

Pending(queue, event) ==
    {queue[i].value : i \in {j \in 1..Len(queue) : queue[j].key = event}}

\* ------------------------------------------------------------ properties

\* C1: while some registered participant has not called ready(), no step
\* invokes a subscriber callback, and a publish step only stores its payload
\* in the pending slot of its kind and returns.
C1_Step ==
    /\ GateClosed' => calls' = calls
    /\ (GateClosed /\ Len(published') > Len(published)) =>
           LET P == Len(published')
               K == published'[P].event
           IN  /\ calls' = calls
               /\ outcome' = "returned"
               /\ Pending(waitForReadyQueue', K) = {P}
               /\ \A other \in Kinds \ {K} :
                      Pending(waitForReadyQueue', other)
                          = Pending(waitForReadyQueue, other)
               /\ UNCHANGED <<subscribers, registers>>

C1_ClosedGateOnlyQueues == [][C1_Step]_vars

C1_Witness ==
    /\ GateClosed
    /\ \E i \in 1..Len(waitForReadyQueue) :
           subscribersOf(waitForReadyQueue[i].key) # <<>>
    /\ calls = <<>>

\* C2: the gate is Open exactly when every name ever registered has had its
\* ready() called, and so it is Open when no name was registered.
C2_GateOpenIffAllReady ==
    /\ areRegistersReady <=> (\A key \in registered : key \in readied)
    /\ registered = {} => areRegistersReady

C2_Witness ==
    /\ registered = Names
    /\ readied = Names
    /\ areRegistersReady
    /\ nCalls > 4

\* C3: a payload published while Closed, whose kind is not published again
\* before the gate opens, is delivered exactly once to every callback
\* identity subscribed under its kind at flush time.
C3_FlushDeliversOnce ==
    \A P \in Payloads :
        Flushed(P) =>
            \A t \in Identities(SubscribedAtDelivery(P)) :
                Cardinality(CallsTo(P, t)) = 1

\* A callback that subscribed after the publish call received the payload.
C3_Witness ==
    \E P \in Payloads :
        /\ Flushed(P)
        /\ \E c \in SubscribedAtDelivery(P) \ published[P].subscribed :
               /\ toString(c) \notin Identities(published[P].subscribed)
               /\ \E i \in CallsOf(P) : calls[i].callback = c

\* C4: of two payloads published for one kind while Closed, with no opening
\* of the gate between them, the first is never delivered, and the second
\* is delivered once to each subscriber of the kind when it is flushed.
C4_LastPublishWins ==
    \A P1, P2 \in Payloads :
        ( /\ P1 < P2
          /\ published[P1].event = published[P2].event
          /\ ClosedAt(P1)
          /\ ClosedAt(P2)
          /\ ~\E o \in 1..Len(openings) :
                 P1 <= openings[o].upTo /\ openings[o].upTo < P2 )
        => /\ CallsOf(P1) = {}
           /\ Flushed(P2) =>
                  Cardinality(CallsOf(P2))
                      = Cardinality(Identities(SubscribedAtDelivery(P2)))

C4_Witness ==
    \E P1, P2 \in Payloads :
        /\ P1 < P2
        /\ published[P1].event = published[P2].event
        /\ ClosedAt(P1)
        /\ Flushed(P2)
        /\ OpeningsSince(P1) = OpeningsSince(P2)
        /\ published[P1].subscribed # {}
        /\ CallsOf(P2) # {}
        /\ CallsOf(P1) = {}

\* C5: when a callback throws during the delivery of a payload, every
\* callback identity subscribed under the kind is still invoked with that
\* payload, and in a flush every other flushed payload still reaches every
\* subscriber of its kind.
C5_ThrowDoesNotStopDelivery ==
    \A i \in 1..Len(calls) :
        Throwing(i) =>
            LET P == calls[i].payload
            IN  /\ Delivered(P)
                /\ \A t \in Identities(SubscribedAtDelivery(P)) :
                       CallsTo(P, t) # {}
                /\ ClosedAt(P) =>
                       \A Q \in Payloads :
                           (Flushed(Q) /\ FirstOpeningSince(Q) = FirstOpeningSince(P))
                           => \A t \in Identities(SubscribedAtDelivery(Q)) :
                                  CallsTo(Q, t) # {}

\* A throwing callback ran first; a second callback of the same kind and a
\* callback of another pending kind ran after it in the same flush.
C5_Witness ==
    \E i, j, k \in 1..Len(calls) :
        /\ i < j
        /\ j < k
        /\ Throwing(i)
        /\ calls[j].payload = calls[i].payload
        /\ calls[j].callback # calls[i].callback
        /\ calls[k].event # calls[i].event
        /\ ClosedAt(calls[i].payload)
        /\ ClosedAt(calls[k].payload)

\* C6: publish and ready() return normally, also when callbacks threw
\* during the delivery they made.
C6_OperationsReturn == outcome = "returned"

C6_Witness ==
    /\ outcome = "returned"
    /\ \E i, j \in 1..Len(calls) :
           /\ Throwing(i)
           /\ ~ClosedAt(calls[i].payload)
           /\ Throwing(j)
           /\ ClosedAt(calls[j].payload)
           /\ j = Len(calls)

\* C7: every delivered payload, immediate or flushed, is invoked once per
\* distinct callback identity subscribed under its kind, however often a
\* callback of that identity was subscribed.
C7_OneInvocationPerIdentity ==
    \A P \in Payloads :
        Delivered(P) =>
            /\ Cardinality(CallsOf(P))
                   = Cardinality(Identities(SubscribedAtDelivery(P)))
            /\ \A i \in CallsOf(P) :
                   Cardinality(CallsTo(P, toString(calls[i].callback))) = 1

\* Every one of at least two calls made was subscribe("page_viewed", f1),
\* and one payload was delivered immediately and another by a flush whose
\* kind had both f1 and f2 subscribed.
C7_Witness ==
    \/ /\ subscribed = {<<"page_viewed", "f1">>}
       /\ registered = {}
       /\ nCalls >= 2
       /\ \E P \in Payloads : Cardinality(CallsOf(P)) = 1
    \/ \E P \in Payloads :
           /\ Flushed(P)
           /\ {"f1", "f2"} \subseteq SubscribedAtDelivery(P)
           /\ Cardinality(CallsOf(P)) = 1

\* C8: a publish made before any register call is delivered at once to the
\* callbacks subscribed under its kind, and the pending queue stays empty.
C8_PublishBeforeRegister ==
    /\ registered = {} => waitForReadyQueue = <<>>
    /\ \A P \in Payloads :
           published[P].registered = {} =>
               /\ \A t \in Identities(published[P].subscribed) :
                      Cardinality(CallsTo(P, t)) = 1
               /\ \A i \in CallsOf(P) :
                      calls[i].callback \in published[P].subscribed

C8_Witness ==
    /\ registered = {}
    /\ \E P \in Payloads :
           /\ published[P].subscribed # {}
           /\ CallsOf(P) # {}
           /\ P = Len(published)

\* C9: a payload published while Closed is delivered by no ready() call
\* made while another participant is still not ready, and is delivered
\* once to each subscriber by the ready() call that makes the last one
\* ready.
C9_FlushAtLastReady ==
    \A P \in Payloads :
        ClosedAt(P) =>
            /\ OpeningsSince(P) = {} => CallsOf(P) = {}
            /\ Flushed(P) =>
                   \A i \in CallsOf(P) :
                       /\ calls[i].callback \in SubscribedAtDelivery(P)
                       /\ Cardinality(CallsTo(P, toString(calls[i].callback))) = 1

\* register(A); register(B); publish(K, P); subscribe(K, cb); A.ready();
\* B.ready(): cb was called exactly once, with P.
C9_Witness ==
    /\ registered = Names
    /\ Len(published) = 1
    /\ published[1].registered = Names
    /\ published[1].readied = {}
    /\ published[1].subscribed = {}
    /\ Len(openings) = 1
    /\ Cardinality(subscribed) = 1
    /\ Len(calls) = 1
    /\ calls[1].payload = 1

C9_WitnessBefore ==
    /\ registered = Names
    /\ Cardinality(readied) = 1
    /\ Len(published) = 1
    /\ ClosedAt(1)
    /\ SubscribedUnder(subscribed, published[1].event) # {}
    /\ calls = <<>>

\* C10: a payload published while Open is only ever delivered to callbacks
\* that were subscribed under its kind when it was published.
C10_NoDeliveryToLateSubscriber ==
    \A P \in Payloads :
        ~ClosedAt(P) =>
            \A i \in CallsOf(P) : calls[i].callback \in published[P].subscribed

\* register(x); x.ready(); publish(K, P); subscribe(K, cb); publish(K, Q):
\* cb was invoked with Q and not with P.
C10_Witness ==
    \E P, Q \in Payloads :
        /\ P < Q
        /\ published[P].registered # {}
        /\ ~ClosedAt(P)
        /\ published[Q].event = published[P].event
        /\ \E c \in published[Q].subscribed \ published[P].subscribed :
               /\ \E i \in CallsOf(Q) : calls[i].callback = c
               /\ ~\E i \in CallsOf(P) : calls[i].callback = c

\* C11 (as stated): once a ready() call has opened the gate, the gate is
\* Open in every later state.
C11_GateOpensOnce == Len(openings) > 0 => areRegistersReady

\* C11 (amended): an Open gate is closed only by register of a name that
\* was never registered, which delivers and queues nothing; every
\* Closed -> Open step leaves the pending queue empty, and callbacks are
\* invoked outside a publish call only in such a step.
C11_Step ==
    /\ (areRegistersReady /\ ~areRegistersReady') =>
           /\ \E key \in Names \ registered : registered' = registered \cup {key}
           /\ UNCHANGED <<waitForReadyQueue, calls, readied>>
    /\ (~areRegistersReady /\ areRegistersReady') =>
           /\ waitForReadyQueue' = <<>>
           /\ Len(openings') = Len(openings) + 1
    /\ (calls' # calls /\ published' = published) =>
           (~areRegistersReady /\ areRegistersReady')

C11_GateReopens == [][C11_Step]_vars

\* The gate opened twice, and each opening flushed a payload to a callback.
C11_Witness ==
    /\ Len(openings) = 2
    /\ areRegistersReady
    /\ \E P, Q \in Payloads :
           /\ Flushed(P)
           /\ Flushed(Q)
           /\ FirstOpeningSince(P) = 1
           /\ FirstOpeningSince(Q) = 2
           /\ CallsOf(P) # {}
           /\ CallsOf(Q) # {}

\* C12: every registered name is one participant whose flag is true
\* exactly when its ready() has been called: it starts false, never goes
\* back to false, and registering the name again changes nothing.
C12_ReadinessMonotonic ==
    /\ DOMAIN registers = registered
    /\ \A key \in registered : registers[key] <=> key \in readied

\* The last call registered again a name that is already ready.
C12_Witness ==
    \E key \in readied :
        /\ lastOp = <<"register", key>>
        /\ registers[key]
        /\ Cardinality(DOMAIN registers) = 1

\* C13: ready() for a name whose ready() was already called invokes no
\* callback, logs nothing, returns, and leaves the participants, the
\* subscriptions and the pending queue as they were.
C13_Step ==
    \A key \in readied :
        lastOp' = <<"ready", key>> =>
            /\ UNCHANGED <<registers, subscribers, waitForReadyQueue,
                           calls, console>>
            /\ outcome' = "returned"

C13_ReadyAgainIsNoOp == [][C13_Step]_vars

\* ready() of the name was called before the last publish and again as the
\* last call, with subscribers present and with the gate Open or Closed.
C13_Witness ==
    \E key \in Names :
        /\ lastOp = <<"ready", key>>
        /\ published # <<>>
        /\ key \in published[Len(published)].readied
        /\ subscribed # {}

\* The last publish call made before opening o (0 before the first).
UpToBefore(o) == IF o = 1 THEN 0 ELSE openings[o - 1].upTo

\* For a flushed payload: the publish call that first put its kind in the
\* pending queue since the queue was last emptied.
FirstEnqueued(P) ==
    CHOOSE Q \in Payloads :
        /\ published[Q].event = published[P].event
        /\ ClosedAt(Q)
        /\ Q > UpToBefore(FirstOpeningSince(P))
        /\ \A R \in Payloads :
               ( /\ published[R].event = published[P].event
                 /\ ClosedAt(R)
                 /\ R > UpToBefore(FirstOpeningSince(P)) ) => Q <= R

\* C14: in a flush, the kinds are delivered in the order in which each kind
\* was first enqueued since the last flush; overwriting a kind's pending
\* payload does not move the kind later.
C14_FlushInFirstEnqueuedOrder ==
    \A P, Q \in Payloads :
        ( /\ Flushed(P)
          /\ Flushed(Q)
          /\ FirstOpeningSince(P) = FirstOpeningSince(Q)
          /\ FirstEnqueued(P) < FirstEnqueued(Q) )
        => \A i \in CallsOf(P), j \in CallsOf(Q) : i < j

\* publish A, publish B, publish A' while Closed: the flush delivered A'
\* before B.
C14_Witness ==
    \E P, Q \in Payloads :
        /\ Flushed(P)
        /\ Flushed(Q)
        /\ FirstOpeningSince(P) = FirstOpeningSince(Q)
        /\ Q < P
        /\ FirstEnqueued(P) < Q
        /\ CallsOf(P) # {}
        /\ CallsOf(Q) # {}
        /\ \A i \in CallsOf(P), j \in CallsOf(Q) : i < j

\* C15: once a ready() call has opened the gate, the pending queue is
\* empty while the gate is Open, also when callbacks threw in the flush;
\* a payload published while Open after an opening is delivered at once to
\* each subscriber of its kind and is not put in the queue.
C15_EmptyAfterFlush ==
    /\ (openings # <<>> /\ ~GateClosed) => waitForReadyQueue = <<>>
    /\ \A P \in Payloads :
           (~ClosedAt(P) /\ \E o \in 1..Len(openings) : openings[o].upTo < P) =>
               /\ \A t \in Identities(published[P].subscribed) :
                      Cardinality(CallsTo(P, t)) = 1
               /\ Pending(waitForReadyQueue, published[P].event) # {P}

\* A callback threw during the flush; a payload published afterwards, with
\* the gate still Open, was delivered.
C15_Witness ==
    /\ openings # <<>>
    /\ ~GateClosed
    /\ waitForReadyQueue = <<>>
    /\ \E i \in 1..Len(calls) : Throwing(i) /\ ClosedAt(calls[i].payload)
    /\ \E P \in Payloads :
           /\ ~ClosedAt(P)
           /\ openings[1].upTo < P
           /\ CallsOf(P) # {}

\* C16 (as stated): a callback is invoked only with payloads whose publish
\* call happened after the callback was subscribed.
C16_OnlyLaterPublishes ==
    \A i \in 1..Len(calls) :
        calls[i].callback \in published[calls[i].payload].subscribed

\* C16 (amended): a callback is invoked only with payloads published after
\* it was subscribed, or with payloads published while Closed that were
\* still pending when it subscribed (it subscribed before their flush).
C16_SubscribedByDelivery ==
    \A i \in 1..Len(calls) :
        LET P == calls[i].payload
        IN  IF ClosedAt(P)
            THEN /\ OpeningsSince(P) # {}
                 /\ calls[i].callback \in SubscribedAtDelivery(P)
            ELSE calls[i].callback \in published[P].subscribed

\* A callback subscribed after two publishes of a kind: it received the one
\* that was pending, and not the one that had been delivered immediately.
C16_Witness ==
    \E i \in 1..Len(calls), Q \in Payloads :
        LET P == calls[i].payload
            c == calls[i].callback
        IN  /\ ClosedAt(P)
            /\ c \notin published[P].subscribed
            /\ ~ClosedAt(Q)
            /\ published[Q].event = published[P].event
            /\ c \notin published[Q].subscribed
            /\ ~\E j \in CallsOf(Q) : calls[j].callback = c

\* C17: in every step taken while a registered participant has not called
\* ready(), the gate is Closed afterwards, no callback is invoked, nothing
\* is logged and the operation returns; a publish only replaces the pending
\* payload of its kind, so the queue never holds more than one entry per
\* kind.
C17_Step ==
    \A key \in registered \ readied' :
        /\ ~areRegistersReady'
        /\ calls' = calls
        /\ console' = console
        /\ outcome' = "returned"
        /\ Len(waitForReadyQueue') <= Cardinality(Kinds)
        /\ Len(published') > Len(published) =>
               LET P == Len(published')
               IN  /\ Pending(waitForReadyQueue', published'[P].event) = {P}
                   /\ Len(waitForReadyQueue') >= Len(waitForReadyQueue)

C17_StuckParticipantKeepsGateClosed == [][C17_Step]_vars

\* One participant never called ready() while the other did; a kind with a
\* subscriber was published twice and only the second payload is pending.
C17_Witness ==
    \E key \in registered \ readied :
        /\ readied # {}
        /\ Len(published) >= 2
        /\ \A P \in Payloads : key \in published[P].registered
        /\ published[1].event = published[2].event
        /\ published[1].subscribed # {}
        /\ Pending(waitForReadyQueue, published[1].event) = {Len(published)}
        /\ Len(waitForReadyQueue) = 1
        /\ calls = <<>>

\* P was published while Closed and its kind was published again before
\* the gate opened.
Overwritten(P) ==
    /\ ClosedAt(P)
    /\ \E Q \in Payloads :
           /\ Q > P
           /\ published[Q].event = published[P].event
           /\ ~\E o \in 1..Len(openings) :
                  P <= openings[o].upTo /\ openings[o].upTo < Q

\* C18 (as stated): once every registered participant has called ready(),
\* every payload passed to publish has been delivered to the subscribers of
\* its kind.
C18_NoEventDropped ==
    ~GateClosed =>
        \A P \in Payloads :
            \A t \in Identities(SubscribedAtDelivery(P)) : CallsTo(P, t) # {}

\* C18 (amended): once every registered participant has called ready(),
\* every payload has been delivered to the subscribers of its kind, except
\* the payloads published while Closed whose kind was published again
\* before the gate opened: those were never delivered.
C18_OnlyOverwrittenDropped ==
    ~GateClosed =>
        \A P \in Payloads :
            IF Overwritten(P)
            THEN CallsOf(P) = {}
            ELSE \A t \in Identities(SubscribedAtDelivery(P)) : CallsTo(P, t) # {}

\* With the gate Open again: one payload was delivered immediately, one was
\* flushed, and one was overwritten while its kind had a subscriber.
C18_Witness ==
    /\ ~GateClosed
    /\ \E P, Q, R \in Payloads :
           /\ ~ClosedAt(P)
           /\ CallsOf(P) # {}
           /\ Overwritten(Q)
           /\ SubscribedAtDelivery(Q) # {}
           /\ Flushed(R)
           /\ CallsOf(R) # {}

\* C19: a publish made through the context value changes nothing on the
\* bus (no callback invoked, nothing queued) when canTrack() returned false
\* as the value was computed, in either gate state, and is the bus's own
\* publish when it returned true.
C19_Step ==
    \A event \in Kinds :
        lastOp' = <<"publish", event>> =>
            IF canTrackAnswer = "true"
            THEN publish(event, Len(published) + 1)
            ELSE UNCHANGED bus

C19_CanTrackGatesPublish == [][C19_Step]_vars

\* A first publish was delivered while canTrack() answered true; after it
\* answered false a publish of the same kind, the last call, did nothing.
C19_Witness ==
    /\ canTrackAnswer = "false"
    /\ Len(published) = 1
    /\ lastOp = <<"publish", published[1].event>>
    /\ CallsOf(1) # {}
    /\ Len(calls) = Cardinality(CallsOf(1))
    /\ waitForReadyQueue = <<>>

\* The invocations that threw, and the n-th of them.
ThrowingCalls == {i \in 1..Len(calls) : Throwing(i)}

NthThrowingCall(n) ==
    CHOOSE i \in ThrowingCalls :
        Cardinality({k \in ThrowingCalls : k <= i}) = n

\* The values passed to one console.error call.
RecordParts(record) == {record[k] : k \in 1..Len(record)}

\* C20: every subscriber failure caught during delivery writes one log
\* record, and that record holds the event kind being delivered, the error
\* and the identity of the failing subscriber.
C20_LogIdentifiesFailure ==
    /\ Len(console) = Cardinality(ThrowingCalls)
    /\ \A n \in 1..Len(console) :
           LET failed == calls[NthThrowingCall(n)]
           IN  /\ failed.event \in RecordParts(console[n])
               /\ toString(failed.callback) \in RecordParts(console[n])
               /\ RecordParts(console[n]) \cap {"error.message", "error"} # {}

\* What the records do hold: one per failure, with the error and the
\* identity of the failing subscriber.
C20_LogHoldsErrorAndSubscriber ==
    /\ Len(console) = Cardinality(ThrowingCalls)
    /\ \A n \in 1..Len(console) :
           LET failed == calls[NthThrowingCall(n)]
           IN  /\ toString(failed.callback) \in RecordParts(console[n])
               /\ RecordParts(console[n]) \cap {"error.message", "error"} # {}

\* C21: a subscribe call returns, in either gate state, and changes only
\* the subscriptions of its kind: no callback is invoked, nothing is
\* logged, and the participants' flags and the pending queue are untouched.
C21_Step ==
    \A event \in Kinds, callback \in Callbacks :
        lastOp' = <<"subscribe", event, callback>> =>
            /\ outcome' = "returned"
            /\ UNCHANGED <<registers, waitForReadyQueue, calls, console>>
            /\ event \in DOMAIN subscribers'
            /\ MapHas(subscribers'[event], toString(callback))
            /\ \A other \in Kinds \ {event} :
                   /\ other \in DOMAIN subscribers' <=> other \in DOMAIN subscribers
                   /\ other \in DOMAIN subscribers =>
                          subscribers'[other] = subscribers[other]

C21_SubscribeOnlySubscribes == [][C21_Step]_vars

\* A payload of the kind was delivered while Open, another is pending
\* behind a Closed gate, and the last call subscribed a callback under the
\* kind: it was not invoked.
C21_Witness ==
    \E event \in Kinds, callback \in Callbacks :
        /\ lastOp = <<"subscribe", event, callback>>
        /\ GateClosed
        /\ Pending(waitForReadyQueue, event) # {}
        /\ \E P \in Payloads : ~ClosedAt(P) /\ published[P].event = event
        /\ ~\E i \in 1..Len(calls) : calls[i].callback = callback

\* The slot of the callback's identity under the kind is already taken.
SlotTaken(event, callback) ==
    MapHas(subscribersOf(event), toString(callback))

\* C22 (as stated): subscribing a callback whose identity is already
\* subscribed under the kind leaves the subscription registry as it was,
\* the slot still holding the instance subscribed first.
C22_StepAsStated ==
    \A event \in Kinds, callback \in Callbacks :
        (lastOp' = <<"subscribe", event, callback>> /\ SlotTaken(event, callback))
        => subscribers' = subscribers

C22_ResubscribeIsNoOp == [][C22_StepAsStated]_vars

\* C22 (amended): subscribing a callback whose identity is already
\* subscribed under the kind keeps the slots of the kind and their order,
\* and puts the instance just passed in the slot of its identity; no other
\* call changes the registry, and every delivery invokes the instances the
\* slots hold, so the instance invoked is the one subscribed last.
C22_Step ==
    /\ \A event \in Kinds, callback \in Callbacks :
           (lastOp' = <<"subscribe", event, callback>> /\ SlotTaken(event, callback))
           => /\ DOMAIN subscribers' = DOMAIN subscribers
              /\ Len(subscribers'[event]) = Len(subscribers[event])
              /\ \A i \in 1..Len(subscribers[event]) :
                     /\ subscribers'[event][i].key = subscribers[event][i].key
                     /\ subscribers'[event][i].value =
                            IF subscribers[event][i].key = toString(callback)
                            THEN callback
                            ELSE subscribers[event][i].value
              /\ \A other \in DOMAIN subscribers \ {event} :
                     subscribers'[other] = subscribers[other]
    /\ lastOp'[1] # "subscribe" => subscribers' = subscribers
    /\ \A i \in (Len(calls) + 1)..Len(calls') :
           \E j \in 1..Len(subscribersOf(calls'[i].event)) :
               /\ subscribersOf(calls'[i].event)[j].key = calls'[i].subscriber
               /\ subscribersOf(calls'[i].event)[j].value = calls'[i].callback

C22_ResubscribeReplacesInstance == [][C22_Step]_vars

\* f1 was subscribed and invoked, then f2 (same text) was subscribed under
\* the same kind, and the next publish invoked f2 alone.
C22_Witness ==
    \E P, Q \in Payloads :
        /\ P < Q
        /\ published[P].event = published[Q].event
        /\ published[P].subscribed = {"f1"}
        /\ published[Q].subscribed = {"f1", "f2"}
        /\ \E i \in 1..Len(calls) : CallsOf(P) = {i} /\ calls[i].callback = "f1"
        /\ \E i \in 1..Len(calls) : CallsOf(Q) = {i} /\ calls[i].callback = "f2"
        /\ lastOp = <<"publish", published[Q].event>>

\* The last publish call made before the gate last opened (0 if it never
\* opened).
LastOpeningUpTo == IF openings = <<>> THEN 0 ELSE openings[Len(openings)].upTo

\* The publish calls made while Closed since the gate last opened.
ClosedSinceFlush == {P \in Payloads : P > LastOpeningUpTo /\ ClosedAt(P)}

\* C23: the pending queue never holds two entries of one kind; its kinds
\* are exactly the kinds published while Closed since the last flush, so it
\* is never longer than the number of distinct kinds published since then.
C23_OnePendingPerKind ==
    /\ \A i, j \in 1..Len(waitForReadyQueue) :
           waitForReadyQueue[i].key = waitForReadyQueue[j].key => i = j
    /\ MapKeys(waitForReadyQueue) = {published[P].event : P \in ClosedSinceFlush}
    /\ Len(waitForReadyQueue)
           <= Cardinality({published[P].event :
                              P \in {Q \in Payloads : Q > LastOpeningUpTo}})

\* Five publish calls were made while Closed and the queue holds two
\* entries.
C23_Witness ==
    /\ Cardinality(ClosedSinceFlush) >= 5
    /\ Len(waitForReadyQueue) = 2
    /\ GateClosed

\* The callback identities that hold a slot under the kind in registry subs.
SlotsIn(subs, event) ==
    IF event \in DOMAIN subs THEN MapKeys(subs[event]) ELSE {}

\* The invocations made by the step.
NewCalls == (Len(calls) + 1)..Len(calls')

\* C24: no step removes a subscription slot or a participant, so every
\* identity ever subscribed under a kind keeps its slot and every name ever
\* registered stays a participant; and a step that delivers a payload
\* invokes every identity that holds a slot under its kind.
C24_Step ==
    /\ \A event \in Kinds :
           SlotsIn(subscribers, event) \subseteq SlotsIn(subscribers', event)
    /\ DOMAIN registers \subseteq DOMAIN registers'
    /\ \A pair \in subscribed' :
           toString(pair[2]) \in SlotsIn(subscribers', pair[1])
    /\ registered' \subseteq DOMAIN registers'
    /\ \A i \in NewCalls :
           \A t \in Identities(SubscribedUnder(subscribed, calls'[i].event)) :
               \E j \in NewCalls :
                   /\ calls'[j].payload = calls'[i].payload
                   /\ calls'[j].subscriber = t

C24_NothingIsRemoved == [][C24_Step]_vars

\* Two identities were subscribed first; after a register, a ready and
\* further subscribes, an immediate and a flushed payload both reached
\* them.
C24_Witness ==
    \E P, Q \in Payloads :
        /\ P < Q
        /\ ~ClosedAt(P)
        /\ Flushed(Q)
        /\ published[P].event = published[Q].event
        /\ Cardinality(Identities(published[P].subscribed)) = 2
        /\ Cardinality(CallsOf(P)) = 2
        /\ Cardinality(CallsOf(Q)) = 2
        /\ registered # {}

\* C25: between operations, an Open gate goes with an empty pending queue:
\* the queue holds something only while a registered participant has not
\* called ready().
C25_OpenGateEmptyQueue ==
    /\ areRegistersReady => waitForReadyQueue = <<>>
    /\ waitForReadyQueue # <<>> => GateClosed

\* The gate closed and opened twice, payloads were queued each time, and
\* the gate is Open with nothing pending.
C25_Witness ==
    /\ areRegistersReady
    /\ waitForReadyQueue = <<>>
    /\ Len(openings) = 2
    /\ \E P, Q \in Payloads :
           /\ ClosedAt(P)
           /\ ClosedAt(Q)
           /\ P <= openings[1].upTo
           /\ Q > openings[1].upTo

\* C26: every invocation a step makes carries a payload that was published
\* for the invocation's kind, on a callback that was subscribed under that
\* kind; each kind has its own slots, one per identity subscribed under it;
\* a step that delivers a kind without subscribers invokes nothing, and
\* every step returns and logs only the failures of the callbacks it
\* invoked.
C26_Step ==
    /\ \A i \in NewCalls :
           /\ calls'[i].payload \in 1..Len(published')
           /\ published'[calls'[i].payload].event = calls'[i].event
           /\ <<calls'[i].event, calls'[i].callback>> \in subscribed
    /\ \A event \in Kinds :
           SlotsIn(subscribers', event)
               = Identities(SubscribedUnder(subscribed', event))
    /\ outcome' = "returned"
    /\ Len(console') - Len(console)
           = Cardinality({i \in NewCalls : Behaviour(calls'[i].callback) # "returns"})

C26_DeliveryStaysInKind == [][C26_Step]_vars

\* g is subscribed under both kinds and f1 under one; an immediate payload
\* of that kind reached f1 and g, a flushed payload of the other kind
\* reached g alone.
C26_Witness ==
    \E P, Q \in Payloads :
        /\ published[P].event # published[Q].event
        /\ ~ClosedAt(P)
        /\ Flushed(Q)
        /\ {calls[i].callback : i \in CallsOf(P)} = {"f1", "g"}
        /\ {calls[i].callback : i \in CallsOf(Q)} = {"g"}
        /\ <<published[Q].event, "f1">> \notin subscribed

\* C27: no step invokes a subscription slot with a payload the slot has
\* already received; a payload a step delivers is not pending afterwards,
\* and a step only ever adds the payload just published to the queue, so no
\* later ready() call, after the gate has closed and opened again or not,
\* delivers it again.
C27_Step ==
    /\ \A i \in NewCalls :
           /\ ~\E j \in 1..(i - 1) :
                  /\ calls'[j].payload = calls'[i].payload
                  /\ calls'[j].subscriber = calls'[i].subscriber
           /\ calls'[i].payload \notin Pending(waitForReadyQueue', calls'[i].event)
    /\ \A event \in Kinds :
           Pending(waitForReadyQueue', event)
               \subseteq Pending(waitForReadyQueue, event)
                            \cup (Len(published) + 1)..Len(published')

C27_NeverDeliveredTwice == [][C27_Step]_vars

\* A payload was flushed to a callback at the first opening; a new
\* participant closed the gate, the kind was published again and flushed at
\* the second opening: each payload was delivered once.
C27_Witness ==
    /\ Len(openings) = 2
    /\ openings[1].by # openings[2].by
    /\ \E P, Q \in Payloads :
           /\ Flushed(P)
           /\ FirstOpeningSince(P) = 1
           /\ Flushed(Q)
           /\ FirstOpeningSince(Q) = 2
           /\ published[P].event = published[Q].event
           /\ Cardinality(CallsOf(P)) = 1
           /\ Cardinality(CallsOf(Q)) = 1

\* C29: register(name) invokes no callback, logs nothing and leaves the
\* subscriptions, the pending queue and every other participant's flag
\* unchanged; ready() leaves the subscriptions alone, changes no flag but
\* its own, changes the queue only by emptying it when every participant is
\* then ready, and invokes no callback when the queue is empty.
C29_Step ==
    \A key \in Names :
        /\ lastOp' = <<"register", key>> =>
               /\ UNCHANGED <<subscribers, waitForReadyQueue, calls, console>>
               /\ DOMAIN registers' = DOMAIN registers \cup {key}
               /\ \A other \in DOMAIN registers \ {key} :
                      registers'[other] = registers[other]
        /\ lastOp' = <<"ready", key>> =>
               /\ UNCHANGED subscribers
               /\ DOMAIN registers' = DOMAIN registers \cup {key}
               /\ registers'[key]
               /\ \A other \in DOMAIN registers \ {key} :
                      registers'[other] = registers[other]
               /\ waitForReadyQueue' =
                      IF registered \subseteq readied \cup {key}
                      THEN <<>>
                      ELSE waitForReadyQueue
               /\ (calls' # calls) =>
                      (registered \subseteq readied \cup {key})
               /\ waitForReadyQueue = <<>> => UNCHANGED <<calls, console>>

C29_RegisterAndReadyFrame == [][C29_Step]_vars

\* With a payload pending for a subscribed kind and two participants, the
\* last call was the ready() of one of them: nothing was delivered and the
\* payload is still pending.
C29_Witness ==
    \E key \in Names :
        /\ lastOp = <<"ready", key>>
        /\ registered = Names
        /\ readied = {key}
        /\ Len(waitForReadyQueue) = 1
        /\ subscribersOf(waitForReadyQueue[1].key) # <<>>
        /\ calls = <<>>

\* P was delivered to every callback identity subscribed under its kind at
\* the delivery.
ReachedAll(P) ==
    /\ Delivered(P)
    /\ \A t \in Identities(SubscribedAtDelivery(P)) : CallsTo(P, t) # {}

\* C28: when every registered participant eventually calls ready() and
\* finitely many register calls are made, a non-empty pending queue
\* eventually becomes empty, and every payload published while Closed is
\* eventually overwritten by a later payload of its kind or delivered to
\* every subscriber of its kind.
C28_EventuallyFlushed ==
    /\ (waitForReadyQueue # <<>>) ~> (waitForReadyQueue = <<>>)
    /\ \A P \in 1..MaxLiveOps :
           (P \in Payloads /\ ClosedAt(P))
               ~> (P \in Payloads /\ (Overwritten(P) \/ ReachedAll(P)))

\* Both participants registered, a payload was queued behind them with a
\* subscriber present, both called ready() and the payload was delivered.
C28_Witness ==
    /\ registered = Names
    /\ readied = Names
    /\ waitForReadyQueue = <<>>
    /\ \E P \in Payloads :
           /\ published[P].registered = Names
           /\ published[P].readied = {}
           /\ ReachedAll(P)
           /\ CallsOf(P) # {}

\* The payloads published in this step by a callback running in a flush.
PublishedInFlush ==
    {P \in (Len(published) + 1)..Len(published') : published'[P].by = "flush"}

\* C30: a payload that a callback publishes while a flush is running is,
\* when the ready() call that flushed has returned, either pending in the
\* queue or delivered to every subscriber of its kind.
C30_Step ==
    \A P \in PublishedInFlush :
        LET event == published'[P].event
        IN  \/ Pending(waitForReadyQueue', event) = {P}
            \/ \A j \in 1..Len(subscribersOf(event)) :
                   \E i \in 1..Len(calls') :
                       /\ calls'[i].payload = P
                       /\ calls'[i].subscriber = subscribersOf(event)[j].key

C30_NestedPublishNotLost == [][C30_Step]_vars

\* The functions of the default context that look like bus operations.
DefaultOps == {"default.publish", "default.subscribe", "default.register",
               "default.ready"}

\* C31: a call of the default context's publish, subscribe or register, or
\* of the ready() its register returned, changes no participant, no
\* subscription and no pending payload, invokes no callback and logs
\* nothing; its canTrack returns false.
C31_Step ==
    /\ lastOp'[1] \in DefaultOps =>
           UNCHANGED <<registers, subscribers, waitForReadyQueue, calls, console>>
    /\ lastOp'[1] = "default.canTrack" => lastOp'[2] = "false"

C31_DefaultContextIsInert == [][C31_Step]_vars

\* With one participant not ready and a payload pending for a subscribed
\* kind, the default register was called with that participant's name and
\* then the ready() it returned: the payload is still pending.
C31_Witness ==
    \E key \in registered \ readied :
        /\ lastOp = <<"default.ready", key>>
        /\ registered = {key}
        /\ Len(waitForReadyQueue) = 1
        /\ subscribersOf(waitForReadyQueue[1].key) # <<>>
        /\ calls = <<>>

\* C32: useAnalytics() called outside an AnalyticsProvider throws instead
\* of returning a context value.
C32_ThrowsOutsideProvider ==
    (lastOp[1] = "useAnalytics" /\ lastOp[2] = "outside") => lastOp[3] = "threw"

\* C33: shopifyCanTrack returns false, and does not throw, when a part of
\* window.Shopify.customerPrivacy.analyticsProcessingAllowed is missing or
\* the call throws, and otherwise returns the very value the call returned.
C33_CanTrackFalseOnFailure ==
    lastOp[1] = "shopifyCanTrack" =>
        LET api == lastOp[2]
            result == lastOp[3]
        IN  /\ result # "threw"
            /\ api \in {"noWindow", "noShopify", "noCustomerPrivacy",
                        "notAFunction", "throws"} => result = "false"
            /\ api = "returnsTrue" => result = "true"
            /\ api = "returnsFalse" => result = "false"
            /\ api = "returnsUndefined" => result = "undefined"

\* The privacy API threw and the predicate answered false.
C33_Witness == lastOp = <<"shopifyCanTrack", "throws", "false">>

\* The PATCH step, before sorting and renumbering, that has the diffs of
\* the returned step.
Before(result, step) ==
    CHOOSE j \in 1..Len(result.patchSteps) : result.patchSteps[j].diffs = step.diffs

\* C34: the steps generateSteps returns are numbered 1..n in list order:
\* first the existing INFO steps, then one COPY_INGREDIENTS step exactly
\* when there is an ingredient, then one PATCH step for each modified file
\* that does not end in .d.ts, in ascending order of the index the PATCH
\* steps had before the renumbering.
C34_StepsAreNormalised ==
    lastOp[1] = "generateSteps" =>
        LET params == lastOp[2]
            result == lastOp[3]
            steps == result.steps
            info == IF params.existingRecipe.exists
                    THEN SelectSeq(params.existingRecipe.steps,
                                   LAMBDA step : step.type = "INFO")
                    ELSE <<>>
            kept == {f \in Range(params.modifiedFiles) : f[Len(f)] # ".d.ts"}
            nCopy == IF params.ingredients # <<>> THEN 1 ELSE 0
            first == Len(info) + nCopy + 1
        IN  /\ \A j \in 1..Len(steps) : steps[j].index = j
            /\ Len(steps) = Len(info) + nCopy + Cardinality(kept)
            /\ \A j \in 1..Len(info) :
                   steps[j] = [info[j] EXCEPT !.index = j]
            /\ nCopy = 1 => steps[Len(info) + 1].type = "COPY_INGREDIENTS"
            /\ Cardinality({j \in 1..Len(steps) :
                                steps[j].type = "COPY_INGREDIENTS"}) = nCopy
            /\ \A j \in first..Len(steps) :
                   /\ steps[j].type = "PATCH"
                   /\ Len(steps[j].diffs) = 1
            /\ {steps[j].diffs[1].file : j \in first..Len(steps)}
                   = {replace(pathJoin(REPO_ROOT, f), TEMPLATE_PATH) : f \in kept}
            /\ \A a, b \in first..Len(steps) :
                   a < b =>
                       result.patchSteps[Before(result, steps[a])].index
                           <= result.patchSteps[Before(result, steps[b])].index

\* Existing INFO steps, an ingredient, a .d.ts file that was left out and
\* two PATCH steps that the sort put in the reverse order of the modified
\* files.
C34_Witness ==
    /\ lastOp[1] = "generateSteps"
    /\ \E f \in Range(lastOp[2].modifiedFiles) : endsWith(f, ".d.ts")
    /\ lastOp[2].ingredients # <<>>
    /\ LET steps == lastOp[3].steps
       IN  /\ Len(steps) = 4
           /\ steps[1].type = "INFO"
           /\ steps[2].type = "COPY_INGREDIENTS"
           /\ Before(lastOp[3], steps[3]) = 2
           /\ Before(lastOp[3], steps[4]) = 1

\* C35: generateForSingleFile throws, having written no patch file, when
\* filePath is missing, when the recipe directory does not exist, when the
\* existing recipe cannot be loaded, or when no step of the recipe has a
\* diff for the file; whenever it returns, all four checks passed, it wrote
\* the patch file of the one step and it returns the manifest path.
C35_SingleFileChecks ==
    lastOp[1] = "generateForSingleFile" =>
        LET params == lastOp[2]
            result == lastOp[3]
            missing == ~params.filePath.given
            noDirectory == ~params.recipeDirExists
            notLoaded == ~params.existingRecipe.exists
            noStep ==
                ~\E k \in 1..Len(params.existingRecipe.steps) :
                     \E d \in 1..Len(params.existingRecipe.steps[k].diffs) :
                         TEMPLATE_PATH \o params.existingRecipe.steps[k].diffs[d].file
                             = params.filePath.path
        IN  /\ (missing \/ noDirectory \/ notLoaded \/ noStep) =>
                   /\ result.outcome = "threw"
                   /\ result.patches = {}
            /\ result.outcome = "returned" =>
                   /\ ~(missing \/ noDirectory \/ notLoaded \/ noStep)
                   /\ Cardinality(result.patches) = 1
                   /\ result.value[Len(result.value)]
                          = (IF params.recipeManifestFormat = "json"
                             THEN "recipe.json" ELSE "recipe.yaml")

\* All four checks passed for a .tsx file: the manifest path was returned
\* and one patch file was written.
C35_Witness ==
    /\ lastOp[1] = "generateForSingleFile"
    /\ lastOp[2].filePath.given
    /\ lastOp[2].filePath.path[Len(lastOp[2].filePath.path)] = ".tsx"
    /\ lastOp[3].outcome = "returned"
    /\ Cardinality(lastOp[3].patches) = 1

====
